---- MODULE Spec2Model ----
(***************************************************************************)
(* Query routing and answer fusion of the agricultural RAG assistant:      *)
(* classify_query and route_query (modules/query_router.py), query_neo4j   *)
(* (modules/kg_handler.py), the cached graph driver                        *)
(* (modules/neo4j_connection.py) and the retrieval function with its       *)
(* SimpleMemory (modules/rag_pipeline.py).                                 *)
(*                                                                         *)
(* Text is modelled at two levels.  Questions, keywords and graph node     *)
(* names are sequences of one-character strings, so that lower-casing,     *)
(* substring tests and the regular expressions are computed as the code    *)
(* computes them.  Answers are sequences of text chunks; a chunk is one    *)
(* literal of the source (with the emoji written in ASCII, "(X)" for the   *)
(* cross mark) or one value supplied by a backend.  The prefixes tested by *)
(* str.startswith are chunks of their own.                                 *)
(***************************************************************************)
EXTENDS Integers, Sequences, FiniteSets, TLC

\* ------------------------------------------------------------------------
\* Bounds of the model
\* ------------------------------------------------------------------------

\* number of questions asked in one session
MaxTurns == 1

\* ------------------------------------------------------------------------
\* Characters and str methods
\* ------------------------------------------------------------------------

UpperToLower ==
    [c \in {"A","B","C","D","E","F","G","H","I","J","K","L","M","N","O","P","Q","R","S","T","U","V","W","X","Y","Z"} |->
        CASE c = "A" -> "a"
          [] c = "B" -> "b"
          [] c = "C" -> "c"
          [] c = "D" -> "d"
          [] c = "E" -> "e"
          [] c = "F" -> "f"
          [] c = "G" -> "g"
          [] c = "H" -> "h"
          [] c = "I" -> "i"
          [] c = "J" -> "j"
          [] c = "K" -> "k"
          [] c = "L" -> "l"
          [] c = "M" -> "m"
          [] c = "N" -> "n"
          [] c = "O" -> "o"
          [] c = "P" -> "p"
          [] c = "Q" -> "q"
          [] c = "R" -> "r"
          [] c = "S" -> "s"
          [] c = "T" -> "t"
          [] c = "U" -> "u"
          [] c = "V" -> "v"
          [] c = "W" -> "w"
          [] c = "X" -> "x"
          [] c = "Y" -> "y"
          [] c = "Z" -> "z"]

LowerLetters ==
    {"a","b","c","d","e","f","g","h","i","j","k","l","m","n","o","p","q","r","s","t","u","v","w","x","y","z"}

Digits ==
    {"0","1","2","3","4","5","6","7","8","9"}

Whitespace ==
    {" ", "\t", "\n"}

\* str.lower()
Lower(s) ==
    [i \in 1..Len(s) |-> IF s[i] \in DOMAIN UpperToLower THEN UpperToLower[s[i]] ELSE s[i]]

\* w occurs in s starting at index i
OccursAt(w, s, i) ==
    /\ i >= 1
    /\ i + Len(w) - 1 <= Len(s)
    /\ \A j \in 1..Len(w) : s[i + j - 1] = w[j]

\* Python's `w in s` for strings
Contains(w, s) ==
    \E i \in 1..(Len(s) - Len(w) + 1) : OccursAt(w, s, i)

\* \w of the re module
IsWordChar(c) ==
    c \in LowerLetters \cup DOMAIN UpperToLower \cup Digits \cup {"_"}

WordCharAt(s, i) ==
    i \in 1..Len(s) /\ IsWordChar(s[i])

\* \b just before the character at index i (i = Len(s) + 1: at the end)
Boundary(s, i) ==
    WordCharAt(s, i - 1) # WordCharAt(s, i)

\* \bw\b matches at index i
WholeWordAt(w, s, i) ==
    Boundary(s, i) /\ OccursAt(w, s, i) /\ Boundary(s, i + Len(w))

\* indices just after a match of \b(w1|w2|..)\b
WordEnds(ws, s) ==
    {e \in 1..(Len(s) + 1) : \E w \in ws : WholeWordAt(w, s, e - Len(w))}

\* indices at which \b(w1|w2|..)\b matches
WordStarts(ws, s) ==
    {i \in 1..Len(s) : \E w \in ws : WholeWordAt(w, s, i)}

\* .* spans from index e up to index j ('.' does not match a newline)
DotStar(s, e, j) ==
    e <= j /\ \A k \in e..(j - 1) : s[k] # "\n"

\* re.search of  A.*B  given where A can end and where B can start
SearchThen(endsA, startsB, s) ==
    \E e \in endsA : \E j \in startsB : DotStar(s, e, j)

\* re.search of  \bw1\s+w2\b
SearchSpaced(w1, w2, s) ==
    \E i \in 1..Len(s) : \E j \in (i + Len(w1) + 1)..Len(s) :
        /\ Boundary(s, i)
        /\ OccursAt(w1, s, i)
        /\ \A k \in (i + Len(w1))..(j - 1) : s[k] \in Whitespace
        /\ OccursAt(w2, s, j)
        /\ Boundary(s, j + Len(w2))

\* ------------------------------------------------------------------------
\* modules/query_router.py: classify_query
\* ------------------------------------------------------------------------

W_scheme ==
    <<"s","c","h","e","m","e">>

W_schemes ==
    <<"s","c","h","e","m","e","s">>

W_for ==
    <<"f","o","r">>

W_eligible ==
    <<"e","l","i","g","i","b","l","e">>

W_available ==
    <<"a","v","a","i","l","a","b","l","e">>

W_in ==
    <<"i","n">>

W_relation ==
    <<"r","e","l","a","t","i","o","n">>

W_between ==
    <<"b","e","t","w","e","e","n">>

W_list ==
    <<"l","i","s","t">>

W_how ==
    <<"h","o","w">>

W_to ==
    <<"t","o">>

W_what ==
    <<"w","h","a","t">>

W_is ==
    <<"i","s">>

W_explain ==
    <<"e","x","p","l","a","i","n">>

W_step ==
    <<"s","t","e","p">>

W_steps ==
    <<"s","t","e","p","s">>

KG_KEYWORDS ==
    << <<"s","c","h","e","m","e">>,
       <<"s","c","h","e","m","e","s">>,
       <<"p","o","l","i","c","y">>,
       <<"p","o","l","i","c","i","e","s">>,
       <<"s","u","b","s","i","d","y">>,
       <<"s","u","b","s","i","d","i","e","s">>,
       <<"e","l","i","g","i","b","i","l","i","t","y">>,
       <<"e","l","i","g","i","b","l","e">>,
       <<"b","e","n","e","f","i","t">>,
       <<"b","e","n","e","f","i","t","s">>,
       <<"g","o","v","e","r","n","m","e","n","t">>,
       <<"s","t","a","t","e">>,
       <<"a","v","a","i","l","a","b","l","e"," ","i","n">>,
       <<"g","r","o","w","n"," ","i","n">>,
       <<"r","e","l","a","t","i","o","n","s","h","i","p">>,
       <<"r","e","l","a","t","e","d"," ","t","o">>,
       <<"p","m","-","k","i","s","a","n">>,
       <<"p","m","f","b","y">>,
       <<"f","a","s","a","l"," ","b","i","m","a">>,
       <<"k","i","s","a","n"," ","c","r","e","d","i","t">>,
       <<"k","c","c">>,
       <<"c","r","o","p"," ","i","n","s","u","r","a","n","c","e">>,
       <<"w","h","a","t"," ","s","c","h","e","m","e","s">>,
       <<"w","h","i","c","h"," ","s","c","h","e","m","e","s">>,
       <<"l","i","s","t"," ","s","c","h","e","m","e","s">> >>

RAG_KEYWORDS ==
    << <<"h","o","w"," ","t","o">>,
       <<"w","h","a","t"," ","i","s">>,
       <<"e","x","p","l","a","i","n">>,
       <<"d","e","s","c","r","i","b","e">>,
       <<"t","e","l","l"," ","m","e"," ","a","b","o","u","t">>,
       <<"g","u","i","d","e">>,
       <<"p","r","o","c","e","s","s">>,
       <<"s","t","e","p">>,
       <<"m","e","t","h","o","d">>,
       <<"t","e","c","h","n","i","q","u","e">>,
       <<"p","r","a","c","t","i","c","e">>,
       <<"e","x","a","m","p","l","e">>,
       <<"d","e","t","a","i","l">>,
       <<"i","n","f","o","r","m","a","t","i","o","n">>,
       <<"l","e","a","r","n">>,
       <<"u","n","d","e","r","s","t","a","n","d">> >>

\* sum(1 for kw in keywords if kw in query_lower)
KeywordScore(keywords, query_lower) ==
    Cardinality({k \in 1..Len(keywords) : Contains(keywords[k], query_lower)})

\* the five kg_patterns, one truth value per pattern
kg_patterns(q) ==
    << SearchThen(WordEnds({W_scheme, W_schemes}, q), WordStarts({W_for}, q), q),
       SearchThen(WordEnds({W_eligible}, q), WordStarts({W_for}, q), q),
       SearchThen(WordEnds({W_available}, q), WordStarts({W_in}, q), q),
       SearchThen({i + Len(W_relation) : i \in {b \in 1..Len(q) : Boundary(q, b) /\ OccursAt(W_relation, q, b)}},
                  WordStarts({W_between}, q), q),
       SearchThen(WordEnds({W_list}, q), WordStarts({W_scheme, W_schemes}, q), q) >>

\* the four rag_patterns
rag_patterns(q) ==
    << SearchSpaced(W_how, W_to, q),
       SearchSpaced(W_what, W_is, q),
       WordStarts({W_explain}, q) # {},
       WordStarts({W_step, W_steps}, q) # {} >>

\* 2 points per matching pattern
PatternScore(matches) ==
    2 * Cardinality({k \in 1..Len(matches) : matches[k]})

kg_score(query_lower) ==
    KeywordScore(KG_KEYWORDS, query_lower) + PatternScore(kg_patterns(query_lower))

rag_score(query_lower) ==
    KeywordScore(RAG_KEYWORDS, query_lower) + PatternScore(rag_patterns(query_lower))

\* classify_query without its first test: the larger score always decides
classify_query_LargerScoreWins(question) ==
    LET query_lower == Lower(question)
        kg  == kg_score(query_lower)
        rag == rag_score(query_lower)
    IN  IF kg > rag THEN "kg"
        ELSE IF rag > kg THEN "rag"
        ELSE "hybrid"

\* classify_query with `or` for `and` in its first test
classify_query_EitherIsHybrid(question) ==
    LET query_lower == Lower(question)
        kg  == kg_score(query_lower)
        rag == rag_score(query_lower)
    IN  IF kg > 0 \/ rag > 0 THEN "hybrid"
        ELSE IF kg > rag THEN "kg"
        ELSE IF rag > kg THEN "rag"
        ELSE "hybrid"

\* classify_query whose default is 'rag'
classify_query_TieIsRetrieval(question) ==
    LET query_lower == Lower(question)
        kg  == kg_score(query_lower)
        rag == rag_score(query_lower)
    IN  IF kg > 0 /\ rag > 0 THEN "hybrid"
        ELSE IF kg > rag THEN "kg"
        ELSE IF rag > kg THEN "rag"
        ELSE "rag"

\* classify_query without its final else: the function falls off its end
classify_query_NoDefault(question) ==
    LET query_lower == Lower(question)
        kg  == kg_score(query_lower)
        rag == rag_score(query_lower)
    IN  IF kg > 0 /\ rag > 0 THEN "hybrid"
        ELSE IF kg > rag THEN "kg"
        ELSE IF rag > kg THEN "rag"
        ELSE "none"

classify_query(question) ==
    LET query_lower == Lower(question)
        kg  == kg_score(query_lower)
        rag == rag_score(query_lower)
    IN  IF kg > 0 /\ rag > 0 THEN "hybrid"
        ELSE IF kg > rag THEN "kg"
        ELSE IF rag > kg THEN "rag"
        ELSE "hybrid"


\* ------------------------------------------------------------------------
\* Text chunks of the answers
\* ------------------------------------------------------------------------

\* the prefix tested by startswith("(X)") (the cross mark emoji)
Cross ==
    "(X)"

\* the prefix tested by startswith("(chart) No") (the bar chart emoji + " No")
ChartNo ==
    "(chart) No"

\* "(X) Neo4j connection unavailable."
UNAVAILABLE ==
    <<Cross, " Neo4j connection unavailable.">>

\* "(chart) No structured data found in the Knowledge Graph."
NO_DATA ==
    <<ChartNo, " structured data found in the Knowledge Graph.">>

\* "(X) Couldn't retrieve information from any source."
NO_SOURCE ==
    <<Cross, " Couldn't retrieve information from any source.">>

\* "(X) No answer found."
SENTINEL ==
    <<Cross, " No answer found.">>

PDF_TAG ==
    "(book) Context from PDFs:\n"

WEB_TAG ==
    "(globe) Web Info:\n"

DIRECT_TAG ==
    "(bulb) Direct answer:\n"

CONTEXT_TAG ==
    "\n(open book) Additional Context:\n"

SCHEME_TAG ==
    "(bank) "

\* str.startswith for a prefix that is a chunk of its own
StartsWith(s, prefix) ==
    Len(s) > 0 /\ s[1] = prefix

\* sep.join(rows) for rows that are chunk sequences
RECURSIVE Join(_, _)
Join(rows, sep) ==
    IF Len(rows) = 0 THEN <<>>
    ELSE IF Len(rows) = 1 THEN rows[1]
    ELSE rows[1] \o <<sep>> \o Join(Tail(rows), sep)

\* outcomes of a call
Ret(v) ==
    [kind |-> "return", value |-> v]

Raise ==
    [kind |-> "raise", value |-> <<>>]

NoCall ==
    [kind |-> "none", value |-> <<>>]

\* ------------------------------------------------------------------------
\* The graph store: edges (source, relation, target) and Scheme nodes
\* (name, description), as the Cypher queries of query_neo4j see them
\* ------------------------------------------------------------------------

NodeNames ==
    {"Rice", "Wheat", "PM-KISAN", "Punjab"}

\* the characters of a node name
NameChars(n) ==
    CASE n = "Rice" -> <<"R","i","c","e">>
      [] n = "Wheat" -> <<"W","h","e","a","t">>
      [] n = "PM-KISAN" -> <<"P","M","-","K","I","S","A","N">>
      [] n = "Punjab" -> <<"P","u","n","j","a","b">>

StoreEmpty ==
    [edges |-> <<>>, schemes |-> <<>>]

\* a part of create_sample_agriculture_graph
StoreSample ==
    [edges |-> << <<"Rice", "ELIGIBLE_FOR", "PM-KISAN">>,
                  <<"Wheat", "ELIGIBLE_FOR", "PM-KISAN">>,
                  <<"Wheat", "GROWN_IN", "Punjab">> >>,
     schemes |-> << <<"PM-KISAN", "Income support to farmer families">> >>]

\* Scheme nodes that have no relationship yet
StoreSchemesOnly ==
    [edges |-> <<>>,
     schemes |-> << <<"PM-KISAN", "Income support to farmer families">> >>]

Stores ==
    {StoreEmpty, StoreSample, StoreSchemesOnly}

\* ------------------------------------------------------------------------
\* modules/neo4j_connection.py: the cached driver.  0 is None, a positive
\* number is the driver created by the n-th call of GraphDatabase.driver
\* ------------------------------------------------------------------------

\* get_neo4j_driver: the value returned and the new value of the global
get_neo4j_driver(driver, created, has_pw, connect_ok) ==
    IF driver # 0 THEN [ret |-> driver, driver |-> driver, created |-> created]
    ELSE IF ~has_pw THEN [ret |-> 0, driver |-> 0, created |-> created]
    ELSE IF connect_ok THEN [ret |-> created + 1, driver |-> created + 1, created |-> created + 1]
    ELSE [ret |-> 0, driver |-> created + 1, created |-> created + 1]

\* ------------------------------------------------------------------------
\* modules/kg_handler.py: query_neo4j
\* ------------------------------------------------------------------------

\* the alternatives of the keyword regular expression, pm[- ]?kisan expanded
KeywordAlternatives ==
    << <<"p","m","-","k","i","s","a","n">>,
       <<"p","m"," ","k","i","s","a","n">>,
       <<"p","m","k","i","s","a","n">>,
       <<"p","m","f","b","y">>,
       <<"f","a","s","a","l"," ","b","i","m","a">>,
       <<"k","c","c">>,
       <<"s","c","h","e","m","e">>,
       <<"s","u","b","s","i","d","y">>,
       <<"p","o","l","i","c","y">>,
       <<"r","i","c","e">>,
       <<"w","h","e","a","t">>,
       <<"m","a","i","z","e">>,
       <<"c","o","t","t","o","n">> >>

StopWords ==
    { <<"w","h","a","t">>,
      <<"i","s">>,
      <<"a","b","o","u","t">>,
      <<"s","c","h","e","m","e">>,
      <<"s","c","h","e","m","e","s">>,
      <<"f","o","r">>,
      <<"t","h","e">>,
      <<"a">>,
      <<"o","f">> }

\* LIMIT 10 of the edge query
EdgeLimit == 10

\* LIMIT 3 of the Scheme query
SchemeLimit == 3

\* re.findall(alternatives, q)[0]: the leftmost match, or <<>> when none
FirstKeyword(q) ==
    LET hits == {i \in 1..Len(q) : \E k \in 1..Len(KeywordAlternatives) : OccursAt(KeywordAlternatives[k], q, i)}
    IN  IF hits = {} THEN <<>>
        ELSE LET i == CHOOSE h \in hits : \A g \in hits : h <= g
                 k == CHOOSE a \in 1..Len(KeywordAlternatives) :
                          /\ OccursAt(KeywordAlternatives[a], q, i)
                          /\ \A b \in 1..(a - 1) : ~OccursAt(KeywordAlternatives[b], q, i)
             IN  KeywordAlternatives[k]

\* the match of \b[a-z]{3,}\b that starts at index i, or <<>>
LetterRunAt(q, i) ==
    IF ~(Boundary(q, i) /\ i <= Len(q) /\ q[i] \in LowerLetters) THEN <<>>
    ELSE LET e == CHOOSE j \in i..Len(q) :
                      /\ \A k \in i..j : q[k] \in LowerLetters
                      /\ (j = Len(q) \/ q[j + 1] \notin LowerLetters)
         IN  IF e - i + 1 >= 3 /\ Boundary(q, e + 1) THEN SubSeq(q, i, e) ELSE <<>>

\* the first word of re.findall(r'\b[a-z]{3,}\b', q) that is no stop word, or <<>>
FirstContentWord(q) ==
    LET starts == {i \in 1..Len(q) : LetterRunAt(q, i) # <<>> /\ LetterRunAt(q, i) \notin StopWords}
    IN  IF starts = {} THEN <<>>
        ELSE LetterRunAt(q, CHOOSE h \in starts : \A g \in starts : h <= g)

\* lines 35-43: the keyword looked up in the graph
ExtractKeyword(question) ==
    LET q == Lower(question)
    IN  IF FirstKeyword(q) # <<>> THEN FirstKeyword(q)
        ELSE IF FirstContentWord(q) # <<>> THEN FirstContentWord(q)
        ELSE q

\* toLower(name) CONTAINS toLower(keyword)
NameMatches(name, keyword) ==
    Contains(Lower(keyword), Lower(NameChars(name)))

Limit(rows, n) ==
    SubSeq(rows, 1, IF Len(rows) < n THEN Len(rows) ELSE n)

\* the rows of MATCH (n)-[r]->(m) WHERE n.name or m.name contains the keyword
EdgeRows(st, keyword) ==
    Limit(SelectSeq(st.edges, LAMBDA e : NameMatches(e[1], keyword) \/ NameMatches(e[3], keyword)), EdgeLimit)

\* the rows of MATCH (s:Scheme) WHERE s.name contains the keyword
SchemeRows(st, keyword) ==
    Limit(SelectSeq(st.schemes, LAMBDA s : NameMatches(s[1], keyword)), SchemeLimit)

\* f"{Source} --[{Relation}]-> {Target}", joined by newlines
FormatEdges(data) ==
    Join([i \in 1..Len(data) |-> <<data[i][1], " --[", data[i][2], "]-> ", data[i][3]>>], "\n")

\* f"(bank) {Scheme}: {Description}", joined by newlines
FormatSchemes(data) ==
    Join([i \in 1..Len(data) |-> <<SCHEME_TAG, data[i][1], ": ", data[i][2]>>], "\n")

\* ------------------------------------------------------------------------
\* The questions asked
\* ------------------------------------------------------------------------

\* "What schemes are available for wheat farmers?"
Q_WheatSchemes ==
    <<"W","h","a","t"," ","s","c","h","e","m","e","s"," ","a","r","e"," ","a","v","a","i","l","a","b","l","e"," ","f","o","r"," ","w","h","e","a","t"," ","f","a","r","m","e","r","s","?">>

\* "How to grow rice organically?"
Q_GrowRice ==
    <<"H","o","w"," ","t","o"," ","g","r","o","w"," ","r","i","c","e"," ","o","r","g","a","n","i","c","a","l","l","y","?">>

\* "Tell me about PM-KISAN eligibility"
Q_PmKisan ==
    <<"T","e","l","l"," ","m","e"," ","a","b","o","u","t"," ","P","M","-","K","I","S","A","N"," ","e","l","i","g","i","b","i","l","i","t","y">>

\* "PM-KISAN benefits"
Q_Benefits ==
    <<"P","M","-","K","I","S","A","N"," ","b","e","n","e","f","i","t","s">>

\* "rice"
Q_Rice ==
    <<"r","i","c","e">>

Questions ==
    {Q_WheatSchemes, Q_GrowRice, Q_PmKisan, Q_Benefits, Q_Rice}

\* classify_query is a pure function: its value for each question asked
QueryTypes ==
    [q \in Questions |-> classify_query(q)]

\* ExtractKeyword is a pure function: its value for each question asked
Keywords ==
    [q \in Questions |-> ExtractKeyword(q)]

\* query_neo4j that runs both lookups and prefers the Scheme descriptions
query_neo4j_SchemesFirst(question, driver, created, has_pw, connect_ok, run1_ok, run2_ok, st) ==
    LET g       == get_neo4j_driver(driver, created, has_pw, connect_ok)
        keyword == Keywords[question]
        data    == EdgeRows(st, keyword)
        fallback_data == SchemeRows(st, keyword)
        edge_lookup   == [label |-> "edges", keyword |-> keyword]
        scheme_lookup == [label |-> "schemes", keyword |-> keyword]
        out(r, p, kw, runs) ==
            [result |-> r, path |-> p, driver |-> g.driver, created |-> g.created,
             keyword |-> kw, lookups |-> runs, got |-> g.ret]
    IN  IF g.ret = 0 THEN out(Ret(UNAVAILABLE), "unavailable", <<>>, <<>>)
        ELSE IF ~run1_ok THEN out(Raise, "raise", keyword, <<edge_lookup>>)
        ELSE IF ~run2_ok THEN out(Raise, "raise", keyword, <<edge_lookup, scheme_lookup>>)
        ELSE IF fallback_data # <<>>
             THEN out(Ret(FormatSchemes(fallback_data)), "schemes", keyword,
                      <<edge_lookup, scheme_lookup>>)
        ELSE IF data # <<>>
             THEN out(Ret(FormatEdges(data)), "edges", keyword, <<edge_lookup, scheme_lookup>>)
        ELSE out(Ret(NO_DATA), "nodata", keyword, <<edge_lookup, scheme_lookup>>)

\* query_neo4j: its outcome, the path taken and the driver global afterwards.
\* connect_ok, run1_ok and run2_ok say whether the store answers the
\* connection test of get_neo4j_driver, the edge query and the Scheme query
\* of this call (a session that fails raises).
query_neo4j(question, driver, created, has_pw, connect_ok, run1_ok, run2_ok, st) ==
    LET g       == get_neo4j_driver(driver, created, has_pw, connect_ok)
        keyword == Keywords[question]
        data    == EdgeRows(st, keyword)
        fallback_data == SchemeRows(st, keyword)
        edge_lookup   == [label |-> "edges", keyword |-> keyword]
        scheme_lookup == [label |-> "schemes", keyword |-> keyword]
        out(r, p, kw, runs) ==
            [result |-> r, path |-> p, driver |-> g.driver, created |-> g.created,
             keyword |-> kw, lookups |-> runs, got |-> g.ret]
    IN  IF g.ret = 0 THEN out(Ret(UNAVAILABLE), "unavailable", <<>>, <<>>)
        ELSE IF ~run1_ok THEN out(Raise, "raise", keyword, <<edge_lookup>>)
        ELSE IF data = <<>>
             THEN IF ~run2_ok THEN out(Raise, "raise", keyword, <<edge_lookup, scheme_lookup>>)
                  ELSE IF fallback_data # <<>>
                       THEN out(Ret(FormatSchemes(fallback_data)), "schemes", keyword,
                                <<edge_lookup, scheme_lookup>>)
                       ELSE out(Ret(NO_DATA), "nodata", keyword, <<edge_lookup, scheme_lookup>>)
             ELSE out(Ret(FormatEdges(data)), "edges", keyword, <<edge_lookup>>)

\* ------------------------------------------------------------------------
\* modules/rag_pipeline.py: SimpleMemory and the retrieval function rag
\* ------------------------------------------------------------------------

\* SimpleMemory(k=5) of build_hybrid_rag
MemoryK == 5

\* save_context without the pop of line 141
save_context_NoEviction(history, input, output) ==
    Append(history, [input |-> input, output |-> output])

\* save_context with pop() for pop(0): the newest turn is dropped
save_context_PopsNewest(history, input, output) ==
    LET appended == Append(history, [input |-> input, output |-> output])
    IN  IF Len(appended) > MemoryK THEN SubSeq(appended, 1, Len(appended) - 1) ELSE appended

\* SimpleMemory.save_context
save_context(history, input, output) ==
    LET appended == Append(history, [input |-> input, output |-> output])
    IN  IF Len(appended) > MemoryK THEN Tail(appended) ELSE appended

\* SimpleMemory.get_history
get_history(history) ==
    history

\* what a generation call (a chain's invoke, llm.invoke) can return
GeneratedTexts ==
    {<<>>, <<"generated text">>}

\* outcomes of asking one corpus: no retriever, an exception, or a text
Absent ==
    [kind |-> "absent", value |-> <<>>]

ChainOutcomes ==
    {Absent, Raise} \cup {Ret(a) : a \in GeneratedTexts}

\* lines 206-214: the PDF step appends its block to combined_answer
rag_pdf(combined, outcome) ==
    IF outcome.kind = "return" /\ outcome.value # <<>>
    THEN combined \o <<PDF_TAG>> \o outcome.value \o <<"\n\n">>
    ELSE combined

\* rag_web with the web block put in front of what is already there
rag_web_Prepends(combined, outcome) ==
    IF outcome.kind = "return" /\ outcome.value # <<>>
    THEN <<WEB_TAG>> \o outcome.value \o <<"\n">> \o combined
    ELSE combined

\* rag_web that leaves the web answer out of combined_answer
rag_web_DropsBlock(combined, outcome) ==
    combined

\* lines 217-226: the web step appends its block to combined_answer
rag_web(combined, outcome) ==
    IF outcome.kind = "return" /\ outcome.value # <<>>
    THEN combined \o <<WEB_TAG>> \o outcome.value \o <<"\n">>
    ELSE combined

\* rag that records its failure text as well
rag_return_SavesFailure(combined, direct) ==
    IF combined # <<>> THEN [value |-> combined, saved |-> <<combined>>]
    ELSE IF direct.kind = "return" THEN [value |-> <<DIRECT_TAG>> \o direct.value, saved |-> <<direct.value>>]
    ELSE [value |-> NO_SOURCE, saved |-> <<NO_SOURCE>>]

\* lines 229-240: what rag returns and what it records, given combined_answer
\* and the outcome of the direct llm.invoke (made only when it is empty)
rag_return(combined, direct) ==
    IF combined # <<>> THEN [value |-> combined, saved |-> <<combined>>]
    ELSE IF direct.kind = "return" THEN [value |-> <<DIRECT_TAG>> \o direct.value, saved |-> <<direct.value>>]
    ELSE [value |-> NO_SOURCE, saved |-> <<>>]

\* ------------------------------------------------------------------------
\* modules/query_router.py: route_query
\* ------------------------------------------------------------------------

\* RouteBranch without the `and use_kg` of line 102
RouteBranch_IgnoresUseKg(qtype, kg) ==
    IF qtype = "kg" THEN "kg"
    ELSE IF qtype = "rag" THEN "rag"
    ELSE "hybrid"

\* RouteBranch without the elif of line 128
RouteBranch_NoRetrievalOnly(qtype, kg) ==
    IF qtype = "kg" /\ kg THEN "kg"
    ELSE "hybrid"

\* lines 102, 128, 132: the branch taken for a classification
RouteBranch(qtype, kg) ==
    IF qtype = "kg" /\ kg THEN "kg"
    ELSE IF qtype = "rag" THEN "rag"
    ELSE "hybrid"

\* KgFound with the startswith test of line 108 inverted
KgFound_Inverted(kg_res) ==
    kg_res # <<>> /\ StartsWith(kg_res, Cross)

\* line 108: the graph result counts as found
KgFound(kg_res) ==
    kg_res # <<>> /\ ~StartsWith(kg_res, Cross)

\* HybridKgAnswer with the test of line 108 in place of that of line 141
HybridKgAnswer_NoDataUnchecked(kg_res) ==
    IF kg_res # <<>> /\ ~StartsWith(kg_res, Cross)
    THEN kg_res
    ELSE <<>>

\* lines 141-142: kg_answer of the hybrid branch
HybridKgAnswer(kg_res) ==
    IF kg_res # <<>> /\ ~StartsWith(kg_res, Cross) /\ ~StartsWith(kg_res, ChartNo)
    THEN kg_res
    ELSE <<>>

\* Enrich without the startswith test of line 115
Enrich_KeepsErrorText(combined, rag_res) ==
    IF rag_res # <<>>
    THEN combined \o <<CONTEXT_TAG>> \o rag_res
    ELSE combined

\* lines 115-116: the enrichment appended after a graph answer
Enrich(combined, rag_res) ==
    IF rag_res # <<>> /\ ~StartsWith(rag_res, Cross)
    THEN combined \o <<CONTEXT_TAG>> \o rag_res
    ELSE combined

\* HybridMerge without the elif of line 152
HybridMerge_DropsGraphSide(kg_ans, rag_answer) ==
    IF kg_ans # <<>> /\ rag_answer # <<>> THEN kg_ans \o <<"\n\n">> \o rag_answer
    ELSE rag_answer

\* HybridMerge with the two sides of line 151 exchanged
HybridMerge_RetrievalFirst(kg_ans, rag_answer) ==
    IF kg_ans # <<>> /\ rag_answer # <<>> THEN rag_answer \o <<"\n\n">> \o kg_ans
    ELSE IF kg_ans # <<>> THEN kg_ans
    ELSE rag_answer

\* lines 150-155
HybridMerge(kg_ans, rag_answer) ==
    IF kg_ans # <<>> /\ rag_answer # <<>> THEN kg_ans \o <<"\n\n">> \o rag_answer
    ELSE IF kg_ans # <<>> THEN kg_ans
    ELSE rag_answer

\* line 157
FinalAnswer(combined) ==
    IF combined # <<>> THEN combined ELSE SENTINEL

\* What route_query does when the rag_function call at a call site (named by
\* its line) ends with outcome r: return, raise, or call rag_function again.
AfterRag(call_site, r, combined, kg_ans) ==
    CASE call_site = 114 ->
            [next |-> "return", site |-> 114,
             combined |-> IF r.kind = "return" THEN Enrich(combined, r.value) ELSE combined]
      [] call_site = 122 ->
            IF r.kind = "return" THEN [next |-> "return", site |-> 122, combined |-> r.value]
            ELSE [next |-> "call", site |-> 126, combined |-> combined]
      [] call_site \in {126, 130} ->
            IF r.kind = "return" THEN [next |-> "return", site |-> call_site, combined |-> r.value]
            ELSE [next |-> "raise", site |-> call_site, combined |-> combined]
      [] call_site = 147 ->
            IF r.kind = "return" THEN [next |-> "return", site |-> 147, combined |-> HybridMerge(kg_ans, r.value)]
            ELSE [next |-> "raise", site |-> 147, combined |-> combined]

\* the call site of rag_function reached after query_neo4j in the kg branch
KgBranchSite(kg) ==
    IF kg.kind = "raise" THEN 126
    ELSE IF KgFound(kg.value) THEN 114
    ELSE 122

\* the functions that can be passed as rag_function: the rag closure of
\* build_hybrid_rag, or any other callable
RagFunctions ==
    {"rag", "callable"}

\* what an arbitrary callable passed as rag_function can do
CallableOutcomes ==
    {Raise, Ret(<<>>), Ret(<<"retrieved text">>)}

\* ------------------------------------------------------------------------
\* State
\* ------------------------------------------------------------------------
VARIABLES
    pc,                 \* where the session is: idle, inside route_query or rag, done, raised
    turns,              \* questions asked so far
    query,              \* the question being routed
    use_kg,             \* argument of route_query
    rag_function,       \* argument of route_query
    query_type,         \* classify_query(query)
    branch,             \* the branch of route_query taken: kg, rag or hybrid
    site,               \* line of the pending rag_function call, 0 if none
    kg_result,          \* outcome of the query_neo4j call of this question
    kg_answer,          \* kg_answer of the hybrid branch
    combined_answer,    \* combined_answer of route_query
    answer,             \* outcome of route_query
    rag_combined,       \* combined_answer of rag
    pdf_outcome,        \* outcome of the PDF chain in the pending rag call
    web_outcome,        \* outcome of the web chain in the pending rag call
    llm_outcome,        \* outcome of the direct llm.invoke in the pending rag call
    rag_result,         \* outcome of the last rag_function call
    memory,             \* SimpleMemory.chat_history
    neo4j_driver,       \* the global _neo4j_driver
    drivers_created,    \* calls of GraphDatabase.driver so far
    has_password,       \* NEO4J_PASSWORD is set
    store,              \* content of the graph store
    pdf_retriever,      \* build_pdf_retriever() returned a retriever
    kg_path,            \* path taken by query_neo4j for this question
    kg_calls,           \* calls of query_neo4j for this question
    rag_calls,          \* calls of rag_function for this question
    mem_writes,         \* calls of save_context for this question
    recorded,           \* every turn handed to save_context in this session, in order
    kg_keyword,         \* keyword of query_neo4j for this question
    kg_lookups,         \* the session.run calls of query_neo4j for this question
    driver_ret,         \* what the last get_neo4j_driver call returned (0 for None)
    drivers_tested,     \* the drivers whose connection test has succeeded
    handed_out,         \* the drivers returned since the last close_neo4j_driver
    chat_history        \* st.session_state.chat_history of the chat page

vars ==
    <<pc, turns, query, use_kg, rag_function, query_type, branch, site,
      kg_result, kg_answer, combined_answer, answer, rag_combined,
      pdf_outcome, web_outcome, llm_outcome, rag_result, memory,
      neo4j_driver, drivers_created, has_password, store, pdf_retriever,
      kg_path, kg_calls, rag_calls, mem_writes, recorded, kg_keyword,
      kg_lookups, driver_ret, drivers_tested, handed_out, chat_history>>

envVars ==
    <<has_password, store, pdf_retriever>>

\* the locals of query_neo4j kept for the properties
lookupVars ==
    <<kg_keyword, kg_lookups>>

\* what is kept about the calls of get_neo4j_driver for the properties
driverVars ==
    <<driver_ret, drivers_tested, handed_out>>

Init ==
    /\ pc = "idle"
    /\ turns = 0
    /\ query = <<>>
    /\ use_kg = TRUE
    /\ rag_function = "rag"
    /\ query_type = "hybrid"
    /\ branch = "none"
    /\ site = 0
    /\ kg_result = NoCall
    /\ kg_answer = <<>>
    /\ combined_answer = <<>>
    /\ answer = NoCall
    /\ rag_combined = <<>>
    /\ pdf_outcome = NoCall
    /\ web_outcome = NoCall
    /\ llm_outcome = NoCall
    /\ rag_result = NoCall
    /\ memory = <<>>
    /\ neo4j_driver = 0
    /\ drivers_created = 0
    /\ has_password \in BOOLEAN
    /\ store \in Stores
    /\ pdf_retriever \in BOOLEAN
    /\ kg_path = "none"
    /\ kg_calls = 0
    /\ rag_calls = 0
    /\ mem_writes = 0
    /\ recorded = <<>>
    /\ kg_keyword = <<>>
    /\ kg_lookups = <<>>
    /\ driver_ret = 0
    /\ drivers_tested = {}
    /\ handed_out = {}
    /\ chat_history = <<>>

\* ------------------------------------------------------------------------
\* Actions
\* ------------------------------------------------------------------------

\* rag_function(query) is called at the given line of route_query, after
\* calls_before earlier calls for this question; fn is the function called
CallRag(call_site, calls_before, fn) ==
    /\ site' = call_site
    /\ rag_calls' = calls_before + 1
    /\ pc' = IF fn = "rag" THEN "rag_pdf" ELSE "callable"
    /\ rag_combined' = <<>>
    /\ pdf_outcome' = NoCall
    /\ web_outcome' = NoCall
    /\ llm_outcome' = NoCall

\* the rag_function call at `site` ended with outcome r: route_query goes on
\* to its return statement, raises, or calls rag_function again
ResumeRoute(r) ==
    LET n == IF branch = "direct"
             THEN [next |-> "return", site |-> 0, combined |-> combined_answer]
             ELSE AfterRag(site, r, combined_answer, kg_answer)
    IN  /\ rag_result' = r
        /\ combined_answer' = n.combined
        /\ IF n.next = "call"
           THEN /\ CallRag(n.site, rag_calls, rag_function)
                /\ answer' = answer
           ELSE /\ pc' = IF n.next = "return" THEN "done" ELSE "raised"
                /\ answer' = IF branch = "direct" THEN r
                             ELSE IF n.next = "return" THEN Ret(FinalAnswer(n.combined))
                             ELSE Raise
                /\ site' = 0
                /\ rag_calls' = rag_calls
                /\ UNCHANGED <<rag_combined, pdf_outcome, web_outcome, llm_outcome>>

\* route_query lines 95-102, 128, 132-136: classify and pick the branch
StartRoute(q, kg, fn) ==
    /\ turns' = turns + 1
    /\ query' = q
    /\ use_kg' = kg
    /\ rag_function' = fn
    /\ query_type' = QueryTypes[q]
    /\ branch' = RouteBranch(query_type', kg)
    /\ kg_result' = NoCall
    /\ kg_answer' = <<>>
    /\ combined_answer' = <<>>
    /\ answer' = NoCall
    /\ rag_result' = NoCall
    /\ kg_path' = "none"
    /\ kg_calls' = 0
    /\ mem_writes' = 0
    /\ IF branch' = "kg" \/ (branch' = "hybrid" /\ kg)
       THEN /\ pc' = "kg_query"
            /\ site' = 0
            /\ rag_calls' = 0
            /\ rag_combined' = <<>>
            /\ pdf_outcome' = NoCall
            /\ web_outcome' = NoCall
            /\ llm_outcome' = NoCall
       ELSE CallRag(IF branch' = "rag" THEN 130 ELSE 147, 0, fn)
    /\ kg_keyword' = <<>>
    /\ kg_lookups' = <<>>
    /\ UNCHANGED <<memory, recorded, neo4j_driver, drivers_created, envVars,
                   driverVars>>

\* main.py lines 125-127: the chat loop calls route_query for the next
\* question
RouteQuery(q, kg, fn) ==
    /\ pc \in {"idle", "done", "raised"}
    /\ turns < MaxTurns
    /\ StartRoute(q, kg, fn)
    /\ UNCHANGED chat_history

\* main.py line 130, rag_pipeline.py lines 200-202: rag(query) is called
\* without route_query; classify_query is not run (branch "direct")
StartRag(q) ==
    /\ turns' = turns + 1
    /\ query' = q
    /\ use_kg' = FALSE
    /\ rag_function' = "rag"
    /\ query_type' = "none"
    /\ branch' = "direct"
    /\ kg_result' = NoCall
    /\ kg_answer' = <<>>
    /\ combined_answer' = <<>>
    /\ answer' = NoCall
    /\ rag_result' = NoCall
    /\ kg_path' = "none"
    /\ kg_calls' = 0
    /\ mem_writes' = 0
    /\ CallRag(130, 0, "rag")
    /\ kg_keyword' = <<>>
    /\ kg_lookups' = <<>>
    /\ UNCHANGED <<memory, recorded, neo4j_driver, drivers_created, envVars,
                   driverVars>>

\* main.py lines 128-130: without a graph store the chat loop calls
\* rag(query) itself for the next question
RagOnly(q) ==
    /\ pc \in {"idle", "done", "raised"}
    /\ turns < MaxTurns
    /\ StartRag(q)
    /\ UNCHANGED chat_history

\* route_query lines 104-126 and 137-144: the query_neo4j call and what the
\* branch does with its outcome, up to the rag_function call that follows
CallQueryNeo4j ==
    /\ pc = "kg_query"
    /\ \E connect_ok, run1_ok, run2_ok \in BOOLEAN :
         \E r \in {query_neo4j(query, neo4j_driver, drivers_created, has_password,
                              connect_ok, run1_ok, run2_ok, store)} :
             /\ kg_result' = r.result
             /\ kg_path' = r.path
             /\ kg_keyword' = r.keyword
             /\ kg_lookups' = r.lookups
             /\ driver_ret' = r.got
             /\ drivers_tested' = IF r.created > drivers_created /\ connect_ok
                                  THEN drivers_tested \cup {r.created}
                                  ELSE drivers_tested
             /\ handed_out' = IF r.got # 0 THEN handed_out \cup {r.got} ELSE handed_out
             /\ neo4j_driver' = r.driver
             /\ drivers_created' = r.created
             /\ kg_calls' = kg_calls + 1
             /\ IF branch = "kg"
                THEN /\ combined_answer' = IF KgBranchSite(r.result) = 114
                                           THEN r.result.value \o <<"\n\n">>
                                           ELSE combined_answer
                     /\ kg_answer' = kg_answer
                     /\ CallRag(KgBranchSite(r.result), rag_calls, rag_function)
                ELSE /\ kg_answer' = IF r.result.kind = "return"
                                     THEN HybridKgAnswer(r.result.value)
                                     ELSE <<>>
                     /\ combined_answer' = combined_answer
                     /\ CallRag(147, rag_calls, rag_function)
    /\ UNCHANGED <<turns, query, use_kg, rag_function, query_type, branch, answer,
                   rag_result, memory, mem_writes, recorded, envVars, chat_history>>

\* rag lines 206-214: ask the PDF corpus
RagPdf ==
    /\ pc = "rag_pdf"
    /\ \E outcome \in ChainOutcomes :
         /\ (outcome = Absent) <=> ~pdf_retriever
         /\ pdf_outcome' = outcome
         /\ rag_combined' = rag_pdf(rag_combined, outcome)
    /\ pc' = "rag_web"
    /\ UNCHANGED <<turns, query, use_kg, rag_function, query_type, branch, site,
                   kg_result, kg_answer, combined_answer, answer, web_outcome,
                   llm_outcome, rag_result, memory, neo4j_driver, drivers_created,
                   envVars, kg_path, kg_calls, rag_calls, mem_writes, recorded,
                   lookupVars, driverVars, chat_history>>

\* rag lines 217-226: search the web and ask the web corpus
RagWeb ==
    /\ pc = "rag_web"
    /\ \E outcome \in ChainOutcomes :
         /\ web_outcome' = outcome
         /\ rag_combined' = rag_web(rag_combined, outcome)
    /\ pc' = IF rag_combined' # <<>> THEN "rag_return" ELSE "rag_direct"
    /\ UNCHANGED <<turns, query, use_kg, rag_function, query_type, branch, site,
                   kg_result, kg_answer, combined_answer, answer, pdf_outcome,
                   llm_outcome, rag_result, memory, neo4j_driver, drivers_created,
                   envVars, kg_path, kg_calls, rag_calls, mem_writes, recorded,
                   lookupVars, driverVars, chat_history>>

\* rag line 235: the direct llm.invoke, reached with an empty combined_answer
RagDirect ==
    /\ pc = "rag_direct"
    /\ \E outcome \in {Raise} \cup {Ret(a) : a \in GeneratedTexts} :
         llm_outcome' = outcome
    /\ pc' = "rag_return"
    /\ UNCHANGED <<turns, query, use_kg, rag_function, query_type, branch, site,
                   kg_result, kg_answer, combined_answer, answer, rag_combined,
                   pdf_outcome, web_outcome, rag_result, memory, neo4j_driver,
                   drivers_created, envVars, kg_path, kg_calls, rag_calls, mem_writes,
                   recorded, lookupVars, driverVars, chat_history>>

\* rag lines 229-231, 236-237, 240: record the turn and return; route_query
\* goes on from the call
RagReturn ==
    /\ pc = "rag_return"
    /\ LET r == rag_return(rag_combined, llm_outcome)
       IN  /\ memory' = IF r.saved # <<>> THEN save_context(memory, query, r.saved[1]) ELSE memory
           /\ mem_writes' = IF r.saved # <<>> THEN mem_writes + 1 ELSE mem_writes
           /\ recorded' = IF r.saved # <<>>
                          THEN Append(recorded, [input |-> query, output |-> r.saved[1]])
                          ELSE recorded
           /\ ResumeRoute(Ret(r.value))
    /\ UNCHANGED <<turns, query, use_kg, rag_function, query_type, branch,
                   kg_result, kg_answer, neo4j_driver, drivers_created, envVars,
                   kg_path, kg_calls, lookupVars, driverVars, chat_history>>

\* a rag_function other than rag returns or raises; route_query goes on
CallableReturn ==
    /\ pc = "callable"
    /\ \E outcome \in CallableOutcomes : ResumeRoute(outcome)
    /\ UNCHANGED <<turns, query, use_kg, rag_function, query_type, branch,
                   kg_result, kg_answer, memory, neo4j_driver, drivers_created,
                   envVars, kg_path, kg_calls, mem_writes, recorded, lookupVars, driverVars, chat_history>>

Next ==
    \/ \E q \in Questions, kg \in BOOLEAN, fn \in RagFunctions : RouteQuery(q, kg, fn)
    \/ \E q \in Questions : RagOnly(q)
    \/ CallQueryNeo4j
    \/ RagPdf
    \/ RagWeb
    \/ RagDirect
    \/ RagReturn
    \/ CallableReturn

Spec ==
    Init /\ [][Next]_vars

\* ------------------------------------------------------------------------
\* A session whose backends may never respond
\* ------------------------------------------------------------------------

\* the backend call pending at pc (session.run of kg_handler lines 55-57,
\* the chains' invoke of rag lines 209 and 221, llm.invoke of line 235, or
\* the injected rag_function) never responds: no call is given a timeout,
\* so the caller stays blocked in it
BackendHangs ==
    /\ pc \in {"kg_query", "rag_pdf", "rag_web", "rag_direct", "callable"}
    /\ pc' = "blocked"
    /\ UNCHANGED <<turns, query, use_kg, rag_function, query_type, branch, site,
                   kg_result, kg_answer, combined_answer, answer, rag_combined,
                   pdf_outcome, web_outcome, llm_outcome, rag_result, memory,
                   neo4j_driver, drivers_created, envVars, kg_path, kg_calls,
                   rag_calls, mem_writes, recorded, lookupVars, driverVars, chat_history>>

NextHang ==
    \/ Next
    \/ BackendHangs

\* the chat loop is one thread that runs whenever it is not blocked
SpecHang ==
    Init /\ [][NextHang]_vars /\ WF_vars(NextHang)

\* ------------------------------------------------------------------------
\* Classification of arbitrary questions
\* ------------------------------------------------------------------------

\* most phrases in a question
MaxWords == 2

\* "PM-KISAN"
P_PmKisan ==
    <<"P","M","-","K","I","S","A","N">>

\* "how to"
P_HowTo ==
    <<"h","o","w"," ","t","o">>

\* "how  to", with two spaces
P_HowTwoSpacesTo ==
    <<"h","o","w"," "," ","t","o">>

\* "relation between"
P_RelationBetween ==
    <<"r","e","l","a","t","i","o","n"," ","b","e","t","w","e","e","n">>

\* the phrases questions are made of: graph keywords, retrieval keywords,
\* text that only a pattern matches, and text that nothing matches
Phrases ==
    {W_scheme, P_PmKisan, P_HowTo, P_HowTwoSpacesTo, W_explain, Q_Rice, W_for,
     P_RelationBetween}

RECURSIVE JoinPhrases(_)
\* " ".join(phrases)
JoinPhrases(phrases) ==
    IF phrases = <<>> THEN <<>>
    ELSE IF Len(phrases) = 1 THEN phrases[1]
    ELSE phrases[1] \o <<" ">> \o JoinPhrases(Tail(phrases))

\* every question of at most MaxWords phrases, the empty one included
ClassifyQuestions ==
    {JoinPhrases(ps) : ps \in UNION {[1..n -> Phrases] : n \in 0..MaxWords}}

\* a question is handed to classify_query
InitClassify ==
    /\ pc = "asked"
    /\ turns = 0
    /\ query \in ClassifyQuestions
    /\ use_kg = TRUE
    /\ rag_function = "rag"
    /\ query_type = "none"
    /\ branch = "none"
    /\ site = 0
    /\ kg_result = NoCall
    /\ kg_answer = <<>>
    /\ combined_answer = <<>>
    /\ answer = NoCall
    /\ rag_combined = <<>>
    /\ pdf_outcome = NoCall
    /\ web_outcome = NoCall
    /\ llm_outcome = NoCall
    /\ rag_result = NoCall
    /\ memory = <<>>
    /\ neo4j_driver = 0
    /\ drivers_created = 0
    /\ has_password = TRUE
    /\ store = StoreEmpty
    /\ pdf_retriever = FALSE
    /\ kg_path = "none"
    /\ kg_calls = 0
    /\ rag_calls = 0
    /\ mem_writes = 0
    /\ recorded = <<>>
    /\ kg_keyword = <<>>
    /\ kg_lookups = <<>>
    /\ driver_ret = 0
    /\ drivers_tested = {}
    /\ handed_out = {}
    /\ chat_history = <<>>

\* route_query line 95: query_type = classify_query(query)
ClassifyQuery ==
    /\ pc = "asked"
    /\ query_type' = classify_query(query)
    /\ pc' = "classified"
    /\ UNCHANGED <<turns, query, use_kg, rag_function, branch, site, kg_result,
                   kg_answer, combined_answer, answer, rag_combined, pdf_outcome,
                   web_outcome, llm_outcome, rag_result, memory, neo4j_driver,
                   drivers_created, envVars, kg_path, kg_calls, rag_calls,
                   mem_writes, recorded, lookupVars, driverVars, chat_history>>

\* route_query lines 102, 128, 132: the if / elif / else over query_type
TakeBranch(kg) ==
    /\ pc = "classified"
    /\ use_kg' = kg
    /\ branch' = RouteBranch(query_type, kg)
    /\ pc' = "branched"
    /\ UNCHANGED <<turns, query, rag_function, query_type, site, kg_result,
                   kg_answer, combined_answer, answer, rag_combined, pdf_outcome,
                   web_outcome, llm_outcome, rag_result, memory, neo4j_driver,
                   drivers_created, envVars, kg_path, kg_calls, rag_calls,
                   mem_writes, recorded, lookupVars, driverVars, chat_history>>

NextClassify ==
    \/ ClassifyQuery
    \/ \E kg \in BOOLEAN : TakeBranch(kg)

SpecClassify ==
    InitClassify /\ [][NextClassify]_vars

\* ------------------------------------------------------------------------
\* The driver singleton under any sequence of calls
\* ------------------------------------------------------------------------

\* most drivers created in one process
MaxDrivers == 4

\* close_neo4j_driver that clears the global only after a clean close()
close_neo4j_driver_NoFinally(driver, close_ok) ==
    IF driver # 0 /\ ~close_ok THEN driver ELSE 0

\* close_neo4j_driver: the value of the global afterwards; close() may
\* raise (close_ok false), the finally clause of line 78 clears it anyway
close_neo4j_driver(driver, close_ok) ==
    IF driver # 0
    THEN IF close_ok THEN 0 ELSE 0
    ELSE driver

\* a process that has not used the graph store yet
InitDriver ==
    /\ pc = "started"
    /\ turns = 0
    /\ query = <<>>
    /\ use_kg = TRUE
    /\ rag_function = "rag"
    /\ query_type = "none"
    /\ branch = "none"
    /\ site = 0
    /\ kg_result = NoCall
    /\ kg_answer = <<>>
    /\ combined_answer = <<>>
    /\ answer = NoCall
    /\ rag_combined = <<>>
    /\ pdf_outcome = NoCall
    /\ web_outcome = NoCall
    /\ llm_outcome = NoCall
    /\ rag_result = NoCall
    /\ memory = <<>>
    /\ neo4j_driver = 0
    /\ drivers_created = 0
    /\ has_password \in BOOLEAN
    /\ store = StoreEmpty
    /\ pdf_retriever = FALSE
    /\ kg_path = "none"
    /\ kg_calls = 0
    /\ rag_calls = 0
    /\ mem_writes = 0
    /\ recorded = <<>>
    /\ kg_keyword = <<>>
    /\ kg_lookups = <<>>
    /\ driver_ret = 0
    /\ drivers_tested = {}
    /\ handed_out = {}
    /\ chat_history = <<>>

\* the variables no call on the driver touches
sessionVars ==
    <<turns, query, use_kg, rag_function, query_type, branch, site, kg_result,
      kg_answer, combined_answer, answer, rag_combined, pdf_outcome, web_outcome,
      llm_outcome, rag_result, memory, envVars, kg_path, kg_calls, rag_calls,
      mem_writes, recorded, lookupVars, chat_history>>

\* a call of get_neo4j_driver; connect_ok says whether the store answers
\* the connection test of lines 47-49
GetDriver(connect_ok) ==
    /\ pc \in {"started", "got", "tested", "closed", "closed_with_error"}
    /\ drivers_created < MaxDrivers
    /\ LET g == get_neo4j_driver(neo4j_driver, drivers_created, has_password, connect_ok)
       IN  /\ neo4j_driver' = g.driver
           /\ drivers_created' = g.created
           /\ driver_ret' = g.ret
           /\ drivers_tested' = IF g.created > drivers_created /\ connect_ok
                                THEN drivers_tested \cup {g.created}
                                ELSE drivers_tested
           /\ handed_out' = IF g.ret # 0 THEN handed_out \cup {g.ret} ELSE handed_out
    /\ pc' = "got"
    /\ UNCHANGED sessionVars

\* test_neo4j_connection: get_neo4j_driver, then RETURN 1 on the driver it
\* returned; test_ok says whether the store answers that query
TestConnection(connect_ok, test_ok) ==
    /\ pc \in {"started", "got", "tested", "closed", "closed_with_error"}
    /\ drivers_created < MaxDrivers
    /\ LET g == get_neo4j_driver(neo4j_driver, drivers_created, has_password, connect_ok)
       IN  /\ neo4j_driver' = g.driver
           /\ drivers_created' = g.created
           /\ driver_ret' = g.ret
           /\ drivers_tested' =
                 (IF g.created > drivers_created /\ connect_ok
                  THEN drivers_tested \cup {g.created}
                  ELSE drivers_tested)
                 \cup (IF g.ret # 0 /\ test_ok THEN {g.ret} ELSE {})
           /\ handed_out' = IF g.ret # 0 THEN handed_out \cup {g.ret} ELSE handed_out
    /\ pc' = "tested"
    /\ UNCHANGED sessionVars

\* a call of close_neo4j_driver
CloseDriver(close_ok) ==
    /\ pc \in {"started", "got", "tested", "closed", "closed_with_error"}
    /\ neo4j_driver' = close_neo4j_driver(neo4j_driver, close_ok)
    /\ handed_out' = {}
    /\ pc' = IF neo4j_driver # 0 /\ ~close_ok THEN "closed_with_error" ELSE "closed"
    /\ UNCHANGED <<drivers_created, driver_ret, drivers_tested>>
    /\ UNCHANGED sessionVars

NextDriver ==
    \/ \E connect_ok \in BOOLEAN : GetDriver(connect_ok)
    \/ \E connect_ok, test_ok \in BOOLEAN : TestConnection(connect_ok, test_ok)
    \/ \E close_ok \in BOOLEAN : CloseDriver(close_ok)

SpecDriver ==
    InitDriver /\ [][NextDriver]_vars

\* ------------------------------------------------------------------------
\* app.py, apppp.py: chatbot_page, the chat page of the web interface
\* ------------------------------------------------------------------------

\* the questions sent in one chat session
MaxSends == 2

\* app.py line 412: the text shown for an exception e, "(X) Error: " + str(e)
ERROR_TEXT ==
    <<Cross, " Error: ", "str(e)">>

\* app.py lines 394-401: how the call of route_query, or of rag_function
\* without a graph store, can end: it returns an answer, rag's failure text
\* among them, or it raises
Responses ==
    {Ret(<<"generated text">>), Ret(NO_SOURCE), Raise}

\* app.py lines 386-389: the message appended for the question sent
user_message(user_query) ==
    [role |-> "user", content |-> user_query]

\* assistant_message that appends nothing when the call raised
assistant_message_DropsError(response) ==
    IF response.kind = "return"
    THEN <<[role |-> "assistant", content |-> response.value]>>
    ELSE <<>>

\* app.py lines 392-413: what the try statement appends, the response of
\* the call (404-407) or, in its except branch, the error text (410-413)
assistant_message(response) ==
    IF response.kind = "return"
    THEN <<[role |-> "assistant", content |-> response.value]>>
    ELSE <<[role |-> "assistant", content |-> ERROR_TEXT]>>

\* what the chat page's own statements leave alone
pageVars ==
    <<use_kg, rag_function, query_type, branch, site, kg_result, kg_answer,
      combined_answer, rag_combined, pdf_outcome, web_outcome, llm_outcome,
      rag_result, memory, neo4j_driver, drivers_created, envVars, kg_path,
      kg_calls, rag_calls, mem_writes, recorded, lookupVars, driverVars>>

\* app.py lines 384-401: a question is sent.  The user message is appended
\* and the call inside the try statement ends with `response`
Send(user_query, response) ==
    /\ pc = "idle"
    /\ turns < MaxSends
    /\ turns' = turns + 1
    /\ query' = user_query
    /\ chat_history' = Append(chat_history, user_message(user_query))
    /\ answer' = response
    /\ pc' = IF response.kind = "return" THEN "done" ELSE "raised"
    /\ UNCHANGED pageVars

\* app.py lines 403-415: the response, or the error text of the except
\* branch, is appended and the script reruns
Respond ==
    /\ pc \in {"done", "raised"}
    /\ chat_history' = chat_history \o assistant_message(answer)
    /\ pc' = "idle"
    /\ UNCHANGED <<turns, query, answer, pageVars>>

\* app.py lines 328-330: the Clear Chat History button
ClearChat ==
    /\ pc = "idle"
    /\ chat_history # <<>>
    /\ chat_history' = <<>>
    /\ UNCHANGED <<pc, turns, query, answer, pageVars>>

NextChat ==
    \/ \E q \in Questions, response \in Responses : Send(q, response)
    \/ Respond
    \/ ClearChat

SpecChat ==
    Init /\ [][NextChat]_vars

\* ------------------------------------------------------------------------
\* The lookup keyword of arbitrary questions
\* ------------------------------------------------------------------------

\* query_neo4j lines 35-43: the keyword extracted from the question
PickKeyword ==
    /\ pc = "asked"
    /\ kg_keyword' = ExtractKeyword(query)
    /\ pc' = "keyword"
    /\ UNCHANGED <<turns, query, use_kg, rag_function, query_type, branch, site,
                   kg_result, kg_answer, combined_answer, answer, rag_combined,
                   pdf_outcome, web_outcome, llm_outcome, rag_result, memory,
                   neo4j_driver, drivers_created, envVars, kg_path, kg_calls,
                   rag_calls, mem_writes, recorded, kg_lookups, driverVars, chat_history>>

NextKeyword ==
    PickKeyword

SpecKeyword ==
    InitClassify /\ [][NextKeyword]_vars

\* ------------------------------------------------------------------------
\* SimpleMemory under any sequence of save_context calls
\* ------------------------------------------------------------------------

\* most save_context calls on one SimpleMemory
MaxRecords == 7

\* the outputs recorded
RecordedOutputs ==
    {<<"generated text">>}

\* memory = SimpleMemory(k=5)
InitMemory ==
    /\ pc = "memory"
    /\ turns = 0
    /\ query = <<>>
    /\ use_kg = TRUE
    /\ rag_function = "rag"
    /\ query_type = "none"
    /\ branch = "none"
    /\ site = 0
    /\ kg_result = NoCall
    /\ kg_answer = <<>>
    /\ combined_answer = <<>>
    /\ answer = NoCall
    /\ rag_combined = <<>>
    /\ pdf_outcome = NoCall
    /\ web_outcome = NoCall
    /\ llm_outcome = NoCall
    /\ rag_result = NoCall
    /\ memory = <<>>
    /\ neo4j_driver = 0
    /\ drivers_created = 0
    /\ has_password = TRUE
    /\ store = StoreEmpty
    /\ pdf_retriever = FALSE
    /\ kg_path = "none"
    /\ kg_calls = 0
    /\ rag_calls = 0
    /\ mem_writes = 0
    /\ recorded = <<>>
    /\ kg_keyword = <<>>
    /\ kg_lookups = <<>>
    /\ driver_ret = 0
    /\ drivers_tested = {}
    /\ handed_out = {}
    /\ chat_history = <<>>

\* memory.save_context({"input": q}, {"output": a})
SaveContext(q, a) ==
    /\ pc = "memory"
    /\ Len(recorded) < MaxRecords
    /\ memory' = save_context(memory, q, a)
    /\ recorded' = Append(recorded, [input |-> q, output |-> a])
    /\ mem_writes' = mem_writes + 1
    /\ UNCHANGED <<pc, turns, query, use_kg, rag_function, query_type, branch,
                   site, kg_result, kg_answer, combined_answer, answer,
                   rag_combined, pdf_outcome, web_outcome, llm_outcome, rag_result,
                   neo4j_driver, drivers_created, envVars, kg_path, kg_calls,
                   rag_calls, lookupVars, driverVars, chat_history>>

NextMemory ==
    \E q \in {Q_Rice, Q_Benefits}, a \in RecordedOutputs : SaveContext(q, a)

SpecMemory ==
    InitMemory /\ [][NextMemory]_vars

\* ------------------------------------------------------------------------
\* Vocabulary of the properties
\* ------------------------------------------------------------------------

\* the chunks of an answer
Chunks(s) ==
    {s[i] : i \in 1..Len(s)}

\* route_query has returned its answer for the current question
Returned ==
    pc = "done"

\* route_query has ended for the current question, by return or by exception
Ended ==
    pc \in {"done", "raised"}

\* query_neo4j returned facts or Scheme descriptions for the current question
GraphFound ==
    kg_path \in {"edges", "schemes"}

\* query_neo4j produced nothing: unavailable marker, no-data marker or exception
GraphNothing ==
    kg_path \in {"unavailable", "nodata", "raise"}

\* chunks that only query_neo4j writes: its markers, its row formats and the
\* names and descriptions read from the store
GraphChunks ==
    {UNAVAILABLE[2], NO_DATA[1], NO_DATA[2], SCHEME_TAG, " --[", "]-> ", ": "}
    \cup NodeNames
    \cup UNION {{st.edges[i][2] : i \in 1..Len(st.edges)} : st \in Stores}
    \cup UNION {{st.schemes[i][2] : i \in 1..Len(st.schemes)} : st \in Stores}

\* the tags that name the source of a fragment
SourceTags ==
    {SCHEME_TAG, PDF_TAG, WEB_TAG, DIRECT_TAG, CONTEXT_TAG}

\* a chain contributed a non-empty answer
Contributed(outcome) ==
    outcome.kind = "return" /\ outcome.value # <<>>

\* the first index of a chunk in an answer (0 when absent)
IndexOf(c, s) ==
    IF c \in Chunks(s) THEN CHOOSE i \in 1..Len(s) : s[i] = c /\ \A j \in 1..(i - 1) : s[j] # c
    ELSE 0

\* ------------------------------------------------------------------------
\* Properties
\* ------------------------------------------------------------------------

\* C1: route_query returns a string and never raises, whatever the graph
\* adapter and the retrieval function do (return, return nothing, raise).
\* Refuted: the rag_function calls at lines 122 (after a retry at 126), 126,
\* 130 and 147 are not wrapped, so an exception of rag_function leaves
\* route_query.
C1_RouteNeverRaises ==
    /\ pc # "raised"
    /\ Ended => answer.kind = "return"

\* C2: when the question is classified kg, use_kg is true and query_neo4j
\* returns its no-data or its unavailable marker, the answer is the answer of
\* the retrieval function (the sentinel standing for an empty one) and holds
\* no text of query_neo4j.
\* Refuted: line 108 only tests the cross mark, so the no-data marker is
\* taken for a graph answer and opens the answer.
C2_KgNothingFallsBackToRetrieval ==
    (Returned /\ query_type = "kg" /\ use_kg /\ kg_path \in {"nodata", "unavailable"})
        => /\ rag_result.value # <<>> => answer.value = rag_result.value
           /\ Chunks(answer.value) \cap GraphChunks = {}

\* C3: when the graph was consulted and returned facts or descriptions, and
\* the retrieval function returned the empty string, the answer is the graph
\* result alone (followed at most by the blank line of line 109): no
\* retrieval block and not the sentinel.
C3_GraphOnlyWhenRetrievalEmpty ==
    (Returned /\ kg_calls = 1 /\ GraphFound /\ rag_result = Ret(<<>>))
        => /\ answer.value \in {kg_result.value, kg_result.value \o <<"\n\n">>}
           /\ answer.value # SENTINEL

C3_Witness ==
    /\ Returned
    /\ branch = "hybrid"
    /\ kg_path = "edges"
    /\ rag_result = Ret(<<>>)
    /\ answer.value = kg_result.value

\* every source of the retrieval side produced nothing for the last call
RetrievalNothing ==
    IF rag_function = "rag"
    THEN ~Contributed(pdf_outcome) /\ ~Contributed(web_outcome) /\ llm_outcome = Raise
    ELSE rag_result = Ret(<<>>)

\* C4: under hybrid classification, when the graph adapter yields nothing and
\* the retrieval side yields nothing, the answer is the sentinel
\* "(X) No answer found." exactly.
\* Refuted: rag returns "(X) Couldn't retrieve information from any source."
\* instead of an empty string, and route_query returns that text.
C4_HybridBothEmptyGivesSentinel ==
    (Returned /\ query_type = "hybrid" /\ use_kg /\ GraphNothing /\ RetrievalNothing)
        => answer.value = SENTINEL

\* C5: the sentinel is returned only when neither the graph adapter nor the
\* retrieval function nor any of its sources produced something.
C5_SentinelOnlyWhenAllEmpty ==
    (Returned /\ answer.value = SENTINEL)
        => /\ ~GraphFound
           /\ rag_result = Ret(<<>>)
           /\ ~Contributed(pdf_outcome)
           /\ ~Contributed(web_outcome)
           /\ ~Contributed(llm_outcome)

C5_Witness ==
    /\ Returned
    /\ answer.value = SENTINEL
    /\ kg_calls = 1
    /\ rag_calls = 1

\* C6: in the hybrid branch, when query_neo4j reports the store unavailable,
\* raises or reports no data, the retrieval function is still called, once,
\* and the answer returned is its answer alone (the sentinel standing for an
\* empty one): no chunk of query_neo4j is in it.
C6_HybridGraphFailureUsesRetrieval ==
    (branch = "hybrid" /\ kg_calls = 1 /\ GraphNothing)
        => /\ rag_calls = 1
           /\ Returned =>
                /\ rag_result.kind = "return"
                /\ answer.value = (IF rag_result.value # <<>> THEN rag_result.value ELSE SENTINEL)
                /\ Chunks(answer.value) \cap GraphChunks = {}

C6_Witness ==
    /\ Returned
    /\ branch = "hybrid"
    /\ kg_path = "nodata"
    /\ rag_result.value # <<>>
    /\ answer.value = rag_result.value

\* C7: under hybrid classification with use_kg true, query_neo4j and the
\* retrieval function have each been called once when route_query ends,
\* whatever the other did; when both gave a non-empty result the answer is
\* the graph result, a blank line, the retrieval result.
C7_HybridCallsBothAndConcatenates ==
    (Ended /\ query_type = "hybrid" /\ use_kg)
        => /\ kg_calls = 1
           /\ rag_calls = 1
           /\ (Returned /\ GraphFound /\ rag_result.value # <<>>)
                => answer.value = kg_result.value \o <<"\n\n">> \o rag_result.value

C7_Witness ==
    /\ Returned
    /\ query_type = "hybrid"
    /\ use_kg
    /\ kg_path = "edges"
    /\ rag_result.value # <<>>
    /\ Len(answer.value) > Len(kg_result.value) + 1

\* C8: for a question classified rag, query_neo4j is never called, whatever
\* use_kg is and whatever the retrieval function does.
C8_RetrievalOnlySkipsGraph ==
    (turns > 0 /\ query_type = "rag")
        => kg_calls = 0 /\ kg_path = "none" /\ pc # "kg_query"

C8_Witness ==
    /\ Ended
    /\ query_type = "rag"
    /\ use_kg
    /\ rag_calls = 1

\* C9: the answer of rag holds a PDF block exactly when the PDF chain gave a
\* non-empty answer and a web block exactly when the web chain did, and the
\* PDF block comes before the web block.
C9_PdfBlockBeforeWebBlock ==
    (Returned /\ rag_function = "rag" /\ rag_result.kind = "return")
        => LET r == rag_result.value
           IN  /\ PDF_TAG \in Chunks(r) <=> Contributed(pdf_outcome)
               /\ WEB_TAG \in Chunks(r) <=> Contributed(web_outcome)
               /\ (PDF_TAG \in Chunks(r) /\ WEB_TAG \in Chunks(r))
                    => /\ IndexOf(PDF_TAG, r) = 1
                       /\ IndexOf(PDF_TAG, r) < IndexOf(WEB_TAG, r)

C9_Witness ==
    /\ Returned
    /\ rag_function = "rag"
    /\ Contributed(pdf_outcome)
    /\ Contributed(web_outcome)
    /\ IndexOf(WEB_TAG, rag_result.value) > 1

\* C10: every fragment of an answer is prefixed with the tag of its source;
\* in particular an answer that is not a marker text opens with a source tag.
\* Refuted: the edge facts of query_neo4j (line 77) carry no tag, and
\* route_query puts them first in the answer as they are.
C10_EveryFragmentTagged ==
    (Returned /\ rag_function = "rag")
        => answer.value[1] \in SourceTags \cup {Cross, ChartNo}

\* ------------------------------------------------------------------------
\* Properties of the classification
\* ------------------------------------------------------------------------

\* some keyword of the list is a substring of the lower-cased question
HasKeyword(keywords, question) ==
    KeywordScore(keywords, Lower(question)) > 0

\* some pattern of the tuple matches
MatchesSome(matches) ==
    PatternScore(matches) > 0

\* classify_query has run on the question
Classified ==
    pc \in {"classified", "branched"}

Tags ==
    {"kg", "rag", "hybrid"}

\* C11 as stated: a question with at least one graph keyword and no
\* retrieval keyword is classified kg.
\* Refuted: the retrieval patterns \bhow\s+to\b and \bwhat\s+is\b match text
\* that holds none of the retrieval keywords ("how  to" with two spaces).
C11_GraphKeywordOnlyGivesKg ==
    (Classified /\ HasKeyword(KG_KEYWORDS, query) /\ ~HasKeyword(RAG_KEYWORDS, query))
        => query_type = "kg"

\* C11: a question with at least one graph keyword, no retrieval keyword
\* and no match of a retrieval pattern is classified kg.
C11_GraphKeywordNoRetrievalMatchGivesKg ==
    (/\ Classified
     /\ HasKeyword(KG_KEYWORDS, query)
     /\ ~HasKeyword(RAG_KEYWORDS, query)
     /\ ~MatchesSome(rag_patterns(Lower(query))))
        => query_type = "kg"

C11_Witness ==
    /\ Classified
    /\ HasKeyword(KG_KEYWORDS, query)
    /\ ~HasKeyword(RAG_KEYWORDS, query)
    /\ ~MatchesSome(rag_patterns(Lower(query)))
    /\ MatchesSome(kg_patterns(Lower(query)))
    /\ query_type = "kg"

\* C12 as stated: a question with no graph keyword and no retrieval keyword
\* is classified hybrid.
\* Refuted: patterns score without any keyword ("how  to", "relation
\* between"), and one side scoring alone decides the classification.
C12_NoKeywordGivesHybrid ==
    (Classified /\ ~HasKeyword(KG_KEYWORDS, query) /\ ~HasKeyword(RAG_KEYWORDS, query))
        => query_type = "hybrid"

\* C12: a question with no graph keyword, no retrieval keyword and no match
\* of a graph or retrieval pattern is classified hybrid.
C12_NoKeywordNoPatternGivesHybrid ==
    (/\ Classified
     /\ ~HasKeyword(KG_KEYWORDS, query)
     /\ ~HasKeyword(RAG_KEYWORDS, query)
     /\ ~MatchesSome(kg_patterns(Lower(query)))
     /\ ~MatchesSome(rag_patterns(Lower(query))))
        => query_type = "hybrid"

C12_Witness ==
    /\ Classified
    /\ query # <<>>
    /\ ~HasKeyword(KG_KEYWORDS, query)
    /\ ~HasKeyword(RAG_KEYWORDS, query)
    /\ ~MatchesSome(kg_patterns(Lower(query)))
    /\ ~MatchesSome(rag_patterns(Lower(query)))
    /\ query_type = "hybrid"

\* C13: classify_query returns one of the three tags for every question,
\* and route_query then takes exactly one of its three branches: the kg
\* branch for kg with use_kg, the rag branch for rag, the hybrid branch
\* otherwise.
C13_ClassificationIsOneOfThreeTags ==
    /\ Classified => query_type \in Tags
    /\ pc = "branched"
         => /\ branch \in Tags
            /\ branch = "kg" <=> (query_type = "kg" /\ use_kg)
            /\ branch = "rag" <=> query_type = "rag"
            /\ branch = "hybrid" <=> (query_type = "hybrid" \/ (query_type = "kg" /\ ~use_kg))

C13_Witness ==
    /\ pc = "branched"
    /\ query_type = "hybrid"
    /\ branch = "hybrid"
    /\ ~HasKeyword(KG_KEYWORDS, query)
    /\ ~HasKeyword(RAG_KEYWORDS, query)

\* ------------------------------------------------------------------------
\* Properties of the memory
\* ------------------------------------------------------------------------

\* the last n elements of a sequence
LastN(s, n) ==
    SubSeq(s, Len(s) - n + 1, Len(s))

Min(a, b) ==
    IF a < b THEN a ELSE b

\* C14: after any sequence of save_context calls the stored history holds
\* at most K turns.
C14_MemoryNeverExceedsK ==
    Len(get_history(memory)) <= MemoryK

C14_Witness ==
    /\ Len(recorded) > MemoryK + 1
    /\ Len(get_history(memory)) = MemoryK

\* C15: after n save_context calls get_history returns exactly the last
\* min(n, K) recorded turns in the order they were recorded; so a call made
\* with K turns stored drops the oldest turn only and puts the new turn last.
C15_EvictionIsFifo ==
    get_history(memory) = LastN(recorded, Min(Len(recorded), MemoryK))

C15_Witness ==
    /\ Len(recorded) > MemoryK
    /\ recorded[1] # recorded[Len(recorded) - MemoryK + 1]
    /\ recorded[Len(recorded)] # recorded[Len(recorded) - 1]
    /\ get_history(memory)[1] = recorded[Len(recorded) - MemoryK + 1]
    /\ get_history(memory)[MemoryK] = recorded[Len(recorded)]

\* ------------------------------------------------------------------------
\* Properties of a session: memory writes and backend failures
\* ------------------------------------------------------------------------

\* a backend call of the current question is pending
BackendPending ==
    pc \in {"kg_query", "rag_pdf", "rag_web", "rag_direct", "rag_return", "callable"}

C17_RecordedTurnIsQuestionAndAnswer ==
    (Returned /\ branch # "direct" /\ rag_function = "rag")
        => /\ memory # <<>>
           /\ memory[Len(memory)].input = query
           /\ memory[Len(memory)].output = answer.value

\* C18: query_neo4j never propagates an exception when the graph store is
\* unavailable; it returns the unavailable marker.
\* Refuted: session.run (lines 55-57, 67-69) is not guarded, so a store that
\* stops answering behind a driver raises out of query_neo4j.
C18_QueryNeo4jNeverRaises ==
    kg_calls > 0
        => /\ kg_result.kind = "return"
           /\ kg_path # "raise"

\* C19: rag returns empty and never raises when neither corpus has an
\* index for the question or the generation calls fail.
\* Refuted: with nothing from the PDF and web chains rag goes on to the
\* direct llm.invoke and returns its answer, or the failure text when that
\* call raises; it never returns the empty string.
C19_RetrievalEmptyOnAbsentIndexOrFailure ==
    (/\ rag_function = "rag"
     /\ rag_result # NoCall
     /\ pdf_outcome \in {Absent, Raise}
     /\ web_outcome \in {Absent, Raise})
        => rag_result = Ret(<<>>)

\* C20: route_query eventually returns for every question, even if a
\* backend call never responds.
\* Refuted: no backend call has a timeout, so a call that never responds
\* leaves route_query blocked in it for ever.
C20_RouteQueryEventuallyEnds ==
    (turns > 0 /\ ~Ended) ~> Ended

\* ------------------------------------------------------------------------
\* Properties of the routing branches
\* ------------------------------------------------------------------------

\* C21: in the kg branch with facts or descriptions from the graph,
\* route_query calls the retrieval function once, returns the graph result
\* first and the retrieval context after it; when the retrieval function
\* raises or returns nothing or an error text, the answer is the graph
\* result alone and neither an exception nor the error text comes out.
C21_EnrichmentIsBestEffort ==
    (Ended /\ branch = "kg" /\ GraphFound)
        => LET primary == kg_result.value \o <<"\n\n">>
               usable == /\ rag_result.kind = "return"
                         /\ rag_result.value # <<>>
                         /\ ~StartsWith(rag_result.value, Cross)
           IN  /\ rag_calls = 1
               /\ rag_result # NoCall
               /\ answer.kind = "return"
               /\ answer.value = IF usable
                                 THEN primary \o <<CONTEXT_TAG>> \o rag_result.value
                                 ELSE primary
               /\ Cross \notin Chunks(answer.value)

C21_Witness ==
    /\ Returned
    /\ branch = "kg"
    /\ GraphFound
    /\ rag_function = "rag"
    /\ rag_result.value = NO_SOURCE
    /\ answer.value = kg_result.value \o <<"\n\n">>

\* 1 point per keyword of the list that is a substring of the lower-cased
\* question, 2 points per matching pattern
Points(keywords, matches, question) ==
    Cardinality({k \in 1..Len(keywords) : Contains(keywords[k], Lower(question))})
        + 2 * Cardinality({k \in 1..Len(matches) : matches[k]})

\* C22: with the two scores (1 point per keyword present, 2 points per
\* matching pattern) classify_query returns hybrid if both are nonzero,
\* else kg or rag for the strictly larger score, else (tie) hybrid; so a
\* question with keywords of both kinds is classified hybrid.
C22_DecisionProcedureOnScores ==
    Classified
        => LET graph_score == Points(KG_KEYWORDS, kg_patterns(Lower(query)), query)
               retrieval_score == Points(RAG_KEYWORDS, rag_patterns(Lower(query)), query)
           IN  /\ (graph_score > 0 /\ retrieval_score > 0) => query_type = "hybrid"
               /\ (graph_score > 0 /\ retrieval_score = 0) => query_type = "kg"
               /\ (graph_score = 0 /\ retrieval_score > 0) => query_type = "rag"
               /\ (graph_score = 0 /\ retrieval_score = 0) => query_type = "hybrid"
               /\ (HasKeyword(KG_KEYWORDS, query) /\ HasKeyword(RAG_KEYWORDS, query))
                    => query_type = "hybrid"

C22_Witness ==
    /\ Classified
    /\ HasKeyword(KG_KEYWORDS, query)
    /\ HasKeyword(RAG_KEYWORDS, query)
    /\ Points(KG_KEYWORDS, kg_patterns(Lower(query)), query)
         < Points(RAG_KEYWORDS, rag_patterns(Lower(query)), query)
    /\ query_type = "hybrid"

\* ------------------------------------------------------------------------
\* Properties of query_neo4j
\* ------------------------------------------------------------------------

\* the domain terms of the list that occur in the lower-cased question
TermsIn(question) ==
    {k \in 1..Len(KeywordAlternatives) : Contains(KeywordAlternatives[k], Lower(question))}

\* the first term of the list that occurs in the question
FirstTermOfList(question) ==
    KeywordAlternatives[CHOOSE k \in TermsIn(question) : \A j \in TermsIn(question) : k <= j]

\* C23: when the question holds domain terms, the lookup keyword is the
\* first term of the list that occurs in the question, wherever the terms
\* stand in the text.
\* Refuted: re.findall(...)[0] is the leftmost match in the text, so a term
\* later in the list wins when it stands first in the question.
C23_KeywordByListPriority ==
    (pc = "keyword" /\ TermsIn(query) # {})
        => kg_keyword = FirstTermOfList(query)

\* the labels of the lookups run, in order
LookupLabels ==
    [i \in 1..Len(kg_lookups) |-> kg_lookups[i].label]

\* C24: query_neo4j runs the Scheme lookup only after an edge lookup that
\* returned no rows, with the same keyword; it returns the edge facts if an
\* edge matched, else the Scheme descriptions if a Scheme matched, else the
\* no-data marker, and never both edge facts and Scheme descriptions.
C24_SchemeLookupOnlyAfterEmptyEdgeLookup ==
    (kg_calls > 0 /\ kg_path # "unavailable")
        => LET data == EdgeRows(store, kg_keyword)
               fallback_data == SchemeRows(store, kg_keyword)
           IN  /\ LookupLabels \in {<<"edges">>, <<"edges", "schemes">>}
               /\ \A i \in 1..Len(kg_lookups) : kg_lookups[i].keyword = kg_keyword
               /\ Len(kg_lookups) = 2 => data = <<>>
               /\ kg_path # "raise"
                    => /\ Len(kg_lookups) = 2 <=> data = <<>>
                       /\ kg_result.value =
                             IF data # <<>> THEN FormatEdges(data)
                             ELSE IF fallback_data # <<>> THEN FormatSchemes(fallback_data)
                             ELSE NO_DATA
                       /\ ~(SCHEME_TAG \in Chunks(kg_result.value)
                              /\ " --[" \in Chunks(kg_result.value))

C24_Witness ==
    /\ kg_calls > 0
    /\ kg_path = "schemes"
    /\ LookupLabels = <<"edges", "schemes">>
    /\ SCHEME_TAG \in Chunks(kg_result.value)

\* ------------------------------------------------------------------------
\* Properties of the driver singleton
\* ------------------------------------------------------------------------

\* C25: get_neo4j_driver returns a driver only if a connection test on
\* that driver has succeeded.
\* Refuted: the global is assigned at line 44, before the test of lines
\* 47-49; when the test fails None is returned but the driver stays in the
\* global, and line 28 returns it to the next caller untested.
C25_OnlyTestedDriversReturned ==
    driver_ret # 0 => driver_ret \in drivers_tested

\* close_neo4j_driver has just run
Closed ==
    pc \in {"closed", "closed_with_error"}

\* C26: between two calls of close_neo4j_driver every call of
\* get_neo4j_driver that returns a driver returns the same one, and once a
\* driver was returned no call creates another; after close_neo4j_driver
\* the global is None even when close() raised, and the next
\* get_neo4j_driver creates a new driver.
C26_SingletonWithExplicitLifecycle ==
    /\ [](Cardinality(handed_out) <= 1)
    /\ [](Closed => neo4j_driver = 0 /\ handed_out = {})
    /\ [][pc' \in {"got", "tested"}
            => /\ (handed_out # {} /\ driver_ret' # 0)
                    => /\ driver_ret' \in handed_out
                       /\ drivers_created' = drivers_created
               /\ (Closed /\ has_password)
                    => /\ drivers_created' = drivers_created + 1
                       /\ neo4j_driver' = drivers_created + 1
                       /\ driver_ret' \in {0, drivers_created + 1}]_vars

C26_Witness ==
    /\ pc = "got"
    /\ drivers_created >= 2
    /\ driver_ret = drivers_created
    /\ neo4j_driver = driver_ret
    /\ handed_out = {driver_ret}

\* ------------------------------------------------------------------------
\* Properties of the calls route_query makes
\* ------------------------------------------------------------------------

\* C27: one call of route_query calls the retrieval function at most once,
\* whatever the classification and the backend outcomes.
\* Refuted: the call of line 122 is inside the outer try; when it raises,
\* the handler of line 124 calls the retrieval function again at line 126.
C27_RetrievalCalledAtMostOnce ==
    rag_calls <= 1

\* C28: with use_kg false query_neo4j is never called, whatever the
\* classification, and the answer returned is the retrieval function's
\* answer, or the sentinel when that answer is empty.
C28_NoGraphCallWithoutUseKg ==
    (turns > 0 /\ ~use_kg)
        => /\ kg_calls = 0
           /\ pc # "kg_query"
           /\ kg_result = NoCall
           /\ Ended => rag_calls = 1
           /\ Returned => answer.value = IF rag_result.value # <<>>
                                          THEN rag_result.value
                                          ELSE SENTINEL

C28_Witness ==
    /\ Returned
    /\ ~use_kg
    /\ query_type = "kg"
    /\ branch = "hybrid"
    /\ rag_result.value # <<>>
    /\ answer.value = rag_result.value

\* the roles of a chat history, in order
Roles(history) ==
    [i \in 1..Len(history) |-> history[i].role]

\* user, assistant, user, assistant, ...
Alternating(roles) ==
    \A i \in 1..Len(roles) :
        roles[i] = (IF i % 2 = 1 THEN "user" ELSE "assistant")

\* the chat page has processed its last send, or none yet
AtRest ==
    pc = "idle"

\* C29: chat_history is always empty or strictly alternating user,
\* assistant, ...: a send appends the user message and then exactly one
\* assistant message, which is the error text when the call raised and the
\* response otherwise, so that a processed send leaves an even number of
\* messages; Clear Chat History is the only step that removes messages and
\* it leaves the history empty
C29_ChatHistoryAlternates ==
    /\ [](Alternating(Roles(chat_history)))
    /\ [](AtRest => Len(chat_history) % 2 = 0)
    /\ [](~AtRest => /\ Len(chat_history) % 2 = 1
                     /\ chat_history[Len(chat_history)] = user_message(query))
    /\ [][/\ Len(chat_history') > Len(chat_history)
             => /\ Len(chat_history') = Len(chat_history) + 1
                /\ SubSeq(chat_history', 1, Len(chat_history)) = chat_history
          /\ (pc = "raised" /\ AtRest')
             => chat_history'[Len(chat_history')].content = ERROR_TEXT
          /\ (pc = "done" /\ AtRest')
             => chat_history'[Len(chat_history')].content = answer.value
          /\ ~(Len(chat_history') > Len(chat_history)) /\ chat_history' # chat_history
             => chat_history' = <<>>]_vars

\* two sends were processed, the first of which raised
C29_Witness ==
    /\ AtRest
    /\ Len(chat_history) = 4
    /\ chat_history[2].content = ERROR_TEXT
    /\ chat_history[4].content = NO_SOURCE

\* rag is running, or has run, for the current question
InRag ==
    rag_function = "rag" /\ rag_calls > 0

\* the PDF chain or the web chain contributed a non-empty answer
SomeChainContributed ==
    Contributed(pdf_outcome) \/ Contributed(web_outcome)

\* C30: in rag the direct llm.invoke is made only if neither the PDF chain
\* nor the web chain contributed a non-empty answer.  When one of them did,
\* rag returns without a direct call and its answer holds the PDF block
\* and/or the web block and no other tagged block; when none did, the direct
\* call is made before rag returns, and if it fails rag returns the fixed
\* failure text and records nothing in Memory
C30_DirectCallOnlyAsLastResort ==
    /\ []((InRag /\ (pc = "rag_direct" \/ llm_outcome # NoCall))
            => ~SomeChainContributed)
    /\ []((InRag /\ pc = "rag_return")
            => (llm_outcome = NoCall <=> SomeChainContributed))
    /\ [][(InRag /\ pc = "rag_return") =>
            /\ SomeChainContributed =>
                 /\ Chunks(rag_result'.value) \cap SourceTags =
                      {t \in {PDF_TAG, WEB_TAG} :
                          \/ t = PDF_TAG /\ Contributed(pdf_outcome)
                          \/ t = WEB_TAG /\ Contributed(web_outcome)}
                 /\ mem_writes' = mem_writes + 1
            /\ llm_outcome = Raise =>
                 /\ rag_result' = Ret(NO_SOURCE)
                 /\ memory' = memory
                 /\ recorded' = recorded
                 /\ mem_writes' = mem_writes]_vars

\* both chains ran and returned nothing, the direct call failed, and rag
\* handed back its failure text without a Memory record
C30_Witness ==
    /\ Returned
    /\ InRag
    /\ pdf_outcome = Ret(<<>>)
    /\ web_outcome = Ret(<<>>)
    /\ llm_outcome = Raise
    /\ rag_result = Ret(NO_SOURCE)
    /\ recorded = <<>>

====
